---- MODULE Spec2Model ----
(***************************************************************************)
(* The persistence layer of fates-app (src-tauri/src/database.rs): one     *)
(* rusqlite connection behind a std::sync::RwLock (SafeConnection), six    *)
(* tables, and one repository per table whose every call takes the lock    *)
(* once, runs one SQL statement and returns.                               *)
(*                                                                         *)
(* A table is the set of its rows; a row is the tuple of its cells in the  *)
(* column order of CREATE TABLE.  A struct is a record.  Option<T> is <<>>  *)
(* (None, stored as NULL) or <<x>> (Some(x)).  Identifiers and instants    *)
(* are small integers; instant 0 is the epoch of default_datetime().       *)
(***************************************************************************)
EXTENDS Integers, Sequences, FiniteSets, TLC

VARIABLES store, now, last, log, repo, pc, cur, res, readers, writer, poisoned,
          schema

vars ==
    <<store, now, last, log, repo, pc, cur, res, readers, writer, poisoned, schema>>

(***************************************************************************)
(* Bounds of the model.                                                    *)
(***************************************************************************)
MaxId == 2
MaxClock == 2
MaxCalls == 4
NThreads == 2
MaxInstant == 4
MaxRows == 1

Ids == 1..MaxId
Keys == {"k1", "k2"}
Names == {"x", "y"}
Samples == {1, 2}
Threads == 1..NThreads
Instants == 0..MaxInstant
RowIds == 1..MaxRows

None == <<>>
Some(x) == <<x>>

(***************************************************************************)
(* Entity values handed to the repositories.  Sample 1 and sample 2 differ *)
(* in every field but the id, and no two fields of one type agree in       *)
(* sample 2.                                                               *)
(***************************************************************************)
MatterSample(id, s) ==
    IF s = 1
    THEN [id |-> id, title |-> "a", description |-> None, tags |-> Some("t1"),
          start_time |-> 1, end_time |-> 2, priority |-> 0, type_ |-> 0,
          created_at |-> 1, updated_at |-> 1,
          reserved_1 |-> None, reserved_2 |-> None, reserved_3 |-> None,
          reserved_4 |-> None, reserved_5 |-> None]
    ELSE [id |-> id, title |-> "b", description |-> Some("d"), tags |-> None,
          start_time |-> 0, end_time |-> 3, priority |-> 1, type_ |-> 2,
          created_at |-> 2, updated_at |-> 4,
          reserved_1 |-> Some("r1"), reserved_2 |-> Some("r2"),
          reserved_3 |-> Some("r3"), reserved_4 |-> Some("r4"),
          reserved_5 |-> Some("r5")]

RepeatTaskSample(id, s) ==
    IF s = 1
    THEN [id |-> id, title |-> "a", tags |-> None, repeat_time |-> "daily",
          status |-> 1, created_at |-> 1, updated_at |-> 1, priority |-> 0,
          description |-> None]
    ELSE [id |-> id, title |-> "b", tags |-> Some("t2"), repeat_time |-> "weekly",
          status |-> 0, created_at |-> 2, updated_at |-> 3, priority |-> 1,
          description |-> Some("d")]

TodoSample(id, s) ==
    IF s = 1
    THEN [id |-> id, title |-> "a", status |-> "todo",
          created_at |-> 1, updated_at |-> 1]
    ELSE [id |-> id, title |-> "b", status |-> "completed",
          created_at |-> 2, updated_at |-> 3]

NotificationSample(id, s) ==
    IF s = 1
    THEN [id |-> id, title |-> "a", content |-> "c1", type_ |-> 0, status |-> 0,
          related_task_id |-> None, created_at |-> 1, read_at |-> None,
          expire_at |-> None, action_url |-> None,
          reserved_1 |-> None, reserved_2 |-> None, reserved_3 |-> None,
          reserved_4 |-> None, reserved_5 |-> None]
    ELSE [id |-> id, title |-> "b", content |-> "c2", type_ |-> 1, status |-> 1,
          related_task_id |-> Some("task"), created_at |-> 2, read_at |-> Some(3),
          expire_at |-> Some(4), action_url |-> Some("u"),
          reserved_1 |-> Some("r1"), reserved_2 |-> Some("r2"),
          reserved_3 |-> Some("r3"), reserved_4 |-> Some("r4"),
          reserved_5 |-> Some("r5")]

(***************************************************************************)
(* Results of a call: rusqlite::Result<T> as a record.                     *)
(***************************************************************************)
Ok(v) == [kind |-> "ok", val |-> v]
Err(e) == [kind |-> "err", val |-> e]
Unit == <<>>

ConstraintViolation == "ConstraintViolation"
PrepareError == "PrepareError"

Out(st, r) == [store |-> st, res |-> r]

(***************************************************************************)
(* The schema: six empty tables.                                           *)
(***************************************************************************)
EmptyStore ==
    [matter |-> {}, kvstore |-> {}, tags |-> {}, repeat_task |-> {},
     todo |-> {}, notification_records |-> {}]

\* What the database file can hold: the six tables and the index on matter.
\* schema is the set of those the file has; a table it has not has no rows.
Tables ==
    {"matter", "kvstore", "tags", "repeat_task", "todo", "notification_records"}

Schema == Tables \cup {"idx_matter_time"}

\* The primary key is the first column of every table.
Pk(row) == row[1]

PkSet(table) == {Pk(r) : r \in table}

\* The sequences that list every element of S once, ascending by key[_]
\* (ORDER BY leaves the order of equal keys open).
SortedSeqs(S, key) ==
    {f \in [1..Cardinality(S) -> S] :
        /\ \A i, j \in 1..Cardinality(S) : i # j => f[i] # f[j]
        /\ \A i, j \in 1..Cardinality(S) : i < j => key[f[i]] <= key[f[j]]}

\* The closure of query_map applied to each row of f, in order.
MapSeq(f, fromRow) == [i \in 1..Len(f) |-> fromRow[f[i]]]

(***************************************************************************)
(* SQL statements on one table.                                            *)
(***************************************************************************)
\* INSERT INTO t (...) VALUES (...): the PRIMARY KEY of the schema rejects a
\* row whose key is stored already, and the table stays as it is.
SqlInsertOrReplace(table, row) ==
    [ok |-> TRUE, table |-> {r \in table : Pk(r) # Pk(row)} \cup {row}]

SqlInsertNoKey(table, row) == [ok |-> TRUE, table |-> table \cup {row}]

SqlInsert(table, row) ==
    IF Pk(row) \in PkSet(table)
    THEN [ok |-> FALSE, table |-> table]
    ELSE [ok |-> TRUE, table |-> table \cup {row}]

SqlInsertOrIgnoreReplacing(table, row) ==
    {r \in table : Pk(r) # Pk(row)} \cup {row}

\* INSERT OR IGNORE INTO t: a conflicting row is dropped without an error.
SqlInsertOrIgnore(table, row) ==
    IF Pk(row) \in PkSet(table) THEN table ELSE table \cup {row}

\* WHERE col = ?: the rows of the table whose cell in column col is v.
SqlWhereEq(table, col, v) == {r \in table : r[col] = v}

\* UPDATE t SET ... WHERE ...: each of the rows the WHERE clause picked is
\* replaced by set[row], the row after the assignments.
SqlUpdate(table, rows, set) == (table \ rows) \cup {set[r] : r \in rows}

\* DELETE FROM t WHERE ...
SqlDelete(table, rows) == table \ rows

\* query_row(...).optional(): the first row of the result, decoded, and
\* Ok(None) when the result is empty (QueryReturnedNoRows becomes None).
QueryRowOptional(st, rows, fromRow) ==
    IF rows = {}
    THEN {Out(st, Ok(None))}
    ELSE {Out(st, Ok(Some(fromRow[r]))) : r \in rows}

\* query_map(...).collect(): every row of the result, decoded, in the order
\* of the statement's ORDER BY key.
QueryMapCollect(st, rows, key, fromRow) ==
    {Out(st, Ok(MapSeq(f, fromRow))) : f \in SortedSeqs(rows, key)}

(***************************************************************************)
(* Matter                                                                  *)
(***************************************************************************)
MatterToRow(m) ==
    <<m.id, m.title, m.description, m.tags, m.start_time, m.end_time,
      m.priority, m.type_, m.created_at, m.updated_at,
      m.reserved_1, m.reserved_2, m.reserved_3, m.reserved_4, m.reserved_5>>

MatterFromRow(r) ==
    [id |-> r[1], title |-> r[2], description |-> r[3], tags |-> r[4],
     start_time |-> r[5], end_time |-> r[6], priority |-> r[7], type_ |-> r[8],
     created_at |-> r[9], updated_at |-> r[10],
     reserved_1 |-> r[11], reserved_2 |-> r[12], reserved_3 |-> r[13],
     reserved_4 |-> r[14], reserved_5 |-> r[15]]

MatterCreate(st, m) ==
    LET i == SqlInsert(st.matter, MatterToRow(m))
    IN  IF i.ok
        THEN {Out([st EXCEPT !.matter = i.table], Ok(Unit))}
        ELSE {Out(st, Err(ConstraintViolation))}

MatterGetById(st, id) ==
    LET rows == SqlWhereEq(st.matter, 1, id)
    IN  QueryRowOptional(st, rows, [r \in rows |-> MatterFromRow(r)])

MatterGetAll(st) ==
    QueryMapCollect(st, st.matter, [r \in st.matter |-> r[5]],
                    [r \in st.matter |-> MatterFromRow(r)])

InTimeRangeStartOnly(r, start, end) ==
    \/ (start <= r[5] /\ r[5] <= end)
    \/ (r[5] <= start /\ r[6] >= end)

\* WHERE (start_time BETWEEN ?1 AND ?2) OR (end_time BETWEEN ?1 AND ?2)
\*    OR (start_time <= ?1 AND end_time >= ?2)
InTimeRange(r, start, end) ==
    \/ (start <= r[5] /\ r[5] <= end)
    \/ (start <= r[6] /\ r[6] <= end)
    \/ (r[5] <= start /\ r[6] >= end)

\* ... ORDER BY start_time
MatterGetByTimeRange(st, start, end) ==
    LET rows == {r \in st.matter : InTimeRange(r, start, end)}
    IN  QueryMapCollect(st, rows, [r \in rows |-> r[5]],
                        [r \in rows |-> MatterFromRow(r)])

\* The characters of the texts the callers and the rows use (value.to_string()).
Chars(s) ==
    CASE s = "a" -> <<"a">>
      [] s = "b" -> <<"b">>
      [] s = "d" -> <<"d">>
      [] s = "ab" -> <<"a", "b">>
      [] s = "a_" -> <<"a", "_">>
      [] s = "AB" -> <<"A", "B">>
      [] s = "%" -> <<"%">>

\* LIKE compares ASCII letters without regard to case.
Fold(ch) ==
    CASE ch = "A" -> "a"
      [] ch = "B" -> "b"
      [] OTHER -> ch

\* txt LIKE pat with no ESCAPE clause: % stands for any run of characters,
\* _ for any one character, every other character for itself up to case.
RECURSIVE SqlLike(_, _)
SqlLike(pat, txt) ==
    IF pat = <<>>
    THEN txt = <<>>
    ELSE IF Head(pat) = "%"
         THEN SqlLike(Tail(pat), txt) \/ (txt # <<>> /\ SqlLike(pat, Tail(txt)))
         ELSE /\ txt # <<>>
              /\ (Head(pat) = "_" \/ Fold(Head(pat)) = Fold(Head(txt)))
              /\ SqlLike(Tail(pat), Tail(txt))

\* The position of a column of matter that holds text; 0 for a name that is
\* no column (prepare fails with "no such column").
MatterColumn(field) ==
    CASE field = "title" -> 2
      [] field = "description" -> 3
      [] OTHER -> 0

\* The text in a text column of a row, None for NULL.
MatterText(r, col) ==
    IF col = 2 THEN Some(Chars(r[2]))
    ELSE IF r[col] = None THEN None ELSE Some(Chars(r[col][1]))

\* format!("%{}%", value): the value between two % signs, as it is.
LikePattern(value) == <<"%">> \o Chars(value) \o <<"%">>

\* SELECT * FROM matter WHERE {field} = ?1 ORDER BY start_time, or
\* ... WHERE {field} LIKE ?1 ORDER BY start_time with ?1 = %value%.
\* NULL is neither equal to nor LIKE anything.
MatterQueryByField(st, field, value, exact_match) ==
    LET col == MatterColumn(field)
        rows == {r \in st.matter :
                   /\ col # 0
                   /\ MatterText(r, col) # None
                   /\ IF exact_match
                      THEN MatterText(r, col)[1] = Chars(value)
                      ELSE SqlLike(LikePattern(value), MatterText(r, col)[1])}
    IN  IF col = 0
        THEN {Out(st, Err(PrepareError))}
        ELSE QueryMapCollect(st, rows, [r \in rows |-> r[5]],
                             [r \in rows |-> MatterFromRow(r)])

MatterUpdate(st, m) ==
    LET rows == SqlWhereEq(st.matter, 1, m.id)
        set == [r \in rows |->
                  <<r[1], m.title, m.description, m.tags, m.start_time,
                    m.end_time, m.priority, m.type_, r[9], m.updated_at,
                    m.reserved_1, m.reserved_2, m.reserved_3, m.reserved_4,
                    m.reserved_5>>]
    IN  {Out([st EXCEPT !.matter = SqlUpdate(st.matter, rows, set)], Ok(Unit))}

MatterDelete(st, id) ==
    {Out([st EXCEPT !.matter = SqlDelete(st.matter, SqlWhereEq(st.matter, 1, id))],
         Ok(Unit))}

(***************************************************************************)
(* KVStore                                                                 *)
(***************************************************************************)
\* INSERT ... ON CONFLICT(key) DO UPDATE SET value = ?2, updated_at = ?3,
\* with now read after the write lock is taken.
KVStoreSetReplace(st, key, value, t) ==
    {Out([st EXCEPT !.kvstore =
             SqlDelete(st.kvstore, SqlWhereEq(st.kvstore, 1, key))
                \cup {<<key, value, t, t>>}],
         Ok(Unit))}

KVStoreSet(st, key, value, t) ==
    LET rows == SqlWhereEq(st.kvstore, 1, key)
        set == [r \in rows |-> <<r[1], value, r[3], t>>]
        i == SqlInsert(st.kvstore, <<key, value, t, t>>)
    IN  IF i.ok
        THEN {Out([st EXCEPT !.kvstore = i.table], Ok(Unit))}
        ELSE {Out([st EXCEPT !.kvstore = SqlUpdate(st.kvstore, rows, set)],
                  Ok(Unit))}

KVStoreGetNoDefault(st, key, default) ==
    LET rows == SqlWhereEq(st.kvstore, 1, key)
    IN  IF rows = {}
        THEN {Out(st, Err("QueryReturnedNoRows"))}
        ELSE {Out(st, Ok(r[2])) : r \in rows}

KVStoreGet(st, key, default) ==
    LET rows == SqlWhereEq(st.kvstore, 1, key)
    IN  IF rows = {}
        THEN {Out(st, Ok(default))}
        ELSE {Out(st, Ok(r[2])) : r \in rows}

KVStoreDelete(st, key) ==
    {Out([st EXCEPT !.kvstore = SqlDelete(st.kvstore, SqlWhereEq(st.kvstore, 1, key))],
         Ok(Unit))}

(***************************************************************************)
(* Tag                                                                     *)
(***************************************************************************)
\* params![name, Utc::now(), Utc::now()]: the clock is read twice, t1 then t2.
TagCreateSwapped(st, name, t1, t2) ==
    {Out([st EXCEPT !.tags = SqlInsertOrIgnore(st.tags, <<name, t2, t1>>)],
         Ok(Unit))}

TagCreate(st, name, t1, t2) ==
    {Out([st EXCEPT !.tags = SqlInsertOrIgnore(st.tags, <<name, t1, t2>>)],
         Ok(Unit))}

\* The collation order of the tag names of the model.
NameRank(n) == IF n = "x" THEN 1 ELSE 2

TagFromRow(r) == [name |-> r[1], created_at |-> r[2], last_used_at |-> r[3]]

TagGetAll(st) ==
    QueryMapCollect(st, st.tags, [r \in st.tags |-> NameRank(r[1])],
                    [r \in st.tags |-> TagFromRow(r)])

TagUpdateLastUsedAt(st, name, t) ==
    LET rows == SqlWhereEq(st.tags, 1, name)
        set == [r \in rows |-> <<r[1], r[2], t>>]
    IN  {Out([st EXCEPT !.tags = SqlUpdate(st.tags, rows, set)], Ok(Unit))}

TagDeleteCascading(st, name) ==
    {Out([st EXCEPT !.tags = SqlDelete(st.tags, SqlWhereEq(st.tags, 1, name)),
                    !.matter = {IF r[4] = Some(name) THEN [r EXCEPT ![4] = None]
                                ELSE r : r \in st.matter}],
         Ok(Unit))}

\* DELETE FROM tags WHERE name = ?1; no table of the schema refers to
\* another by a foreign key or a trigger.
TagDelete(st, name) ==
    {Out([st EXCEPT !.tags = SqlDelete(st.tags, SqlWhereEq(st.tags, 1, name))],
         Ok(Unit))}

(***************************************************************************)
(* RepeatTask                                                              *)
(***************************************************************************)
RepeatTaskToRow(k) ==
    <<k.id, k.title, k.tags, k.repeat_time, k.status, k.created_at,
      k.updated_at, k.priority, k.description>>

RepeatTaskFromRow(r) ==
    [id |-> r[1], title |-> r[2], tags |-> r[3], repeat_time |-> r[4],
     status |-> r[5], created_at |-> r[6], updated_at |-> r[7],
     priority |-> r[8], description |-> r[9]]

RepeatTaskCreate(st, k) ==
    LET i == SqlInsert(st.repeat_task, RepeatTaskToRow(k))
    IN  IF i.ok
        THEN {Out([st EXCEPT !.repeat_task = i.table], Ok(Unit))}
        ELSE {Out(st, Err(ConstraintViolation))}

RepeatTaskGetById(st, id) ==
    LET rows == SqlWhereEq(st.repeat_task, 1, id)
    IN  QueryRowOptional(st, rows, [r \in rows |-> RepeatTaskFromRow(r)])

\* ORDER BY created_at DESC
RepeatTaskGetAll(st) ==
    QueryMapCollect(st, st.repeat_task, [r \in st.repeat_task |-> 0 - r[6]],
                    [r \in st.repeat_task |-> RepeatTaskFromRow(r)])

RepeatTaskGetActiveTasksUnfiltered(st) ==
    QueryMapCollect(st, st.repeat_task, [r \in st.repeat_task |-> 0 - r[6]],
                    [r \in st.repeat_task |-> RepeatTaskFromRow(r)])

\* WHERE status = 1 ORDER BY created_at DESC
RepeatTaskGetActiveTasks(st) ==
    LET rows == SqlWhereEq(st.repeat_task, 5, 1)
    IN  QueryMapCollect(st, rows, [r \in rows |-> 0 - r[6]],
                        [r \in rows |-> RepeatTaskFromRow(r)])

RepeatTaskUpdate(st, k) ==
    LET rows == SqlWhereEq(st.repeat_task, 1, k.id)
        set == [r \in rows |->
                  <<r[1], k.title, k.tags, k.repeat_time, k.status, r[6],
                    k.updated_at, k.priority, k.description>>]
    IN  {Out([st EXCEPT !.repeat_task = SqlUpdate(st.repeat_task, rows, set)],
             Ok(Unit))}

RepeatTaskDelete(st, id) ==
    {Out([st EXCEPT !.repeat_task =
             SqlDelete(st.repeat_task, SqlWhereEq(st.repeat_task, 1, id))],
         Ok(Unit))}

RepeatTaskUpdateStatusEveryRow(st, id, new_status, t) ==
    LET rows == st.repeat_task
        set == [r \in rows |->
                  <<r[1], r[2], r[3], r[4], new_status, r[6], t, r[8], r[9]>>]
    IN  {Out([st EXCEPT !.repeat_task = SqlUpdate(st.repeat_task, rows, set)],
             Ok(Unit))}

\* UPDATE repeat_task SET status = ?1, updated_at = ?2 WHERE id = ?3, with
\* ?2 = Utc::now().
RepeatTaskUpdateStatus(st, id, new_status, t) ==
    LET rows == SqlWhereEq(st.repeat_task, 1, id)
        set == [r \in rows |->
                  <<r[1], r[2], r[3], r[4], new_status, r[6], t, r[8], r[9]>>]
    IN  {Out([st EXCEPT !.repeat_task = SqlUpdate(st.repeat_task, rows, set)],
             Ok(Unit))}

(***************************************************************************)
(* Todo                                                                    *)
(***************************************************************************)
TodoToRow(d) == <<d.id, d.title, d.status, d.created_at, d.updated_at>>

TodoFromRow(r) ==
    [id |-> r[1], title |-> r[2], status |-> r[3], created_at |-> r[4],
     updated_at |-> r[5]]

TodoCreate(st, d) ==
    LET i == SqlInsert(st.todo, TodoToRow(d))
    IN  IF i.ok
        THEN {Out([st EXCEPT !.todo = i.table], Ok(Unit))}
        ELSE {Out(st, Err(ConstraintViolation))}

\* conn.prepare("SELECT FROM todo WHERE id = ?1")?: the statement has no result
\* column, SQLite refuses to compile it, and the ? returns that error before
\* any row is looked up.
TodoGetById(st, id) == {Out(st, Err(PrepareError))}

TodoGetAllAscending(st) ==
    QueryMapCollect(st, st.todo, [r \in st.todo |-> r[4]],
                    [r \in st.todo |-> TodoFromRow(r)])

\* ORDER BY created_at DESC
TodoGetAll(st) ==
    QueryMapCollect(st, st.todo, [r \in st.todo |-> 0 - r[4]],
                    [r \in st.todo |-> TodoFromRow(r)])

TodoUpdateUpsert(st, d) ==
    LET rows == SqlWhereEq(st.todo, 1, d.id)
        set == [r \in rows |-> <<r[1], d.title, d.status, r[4], d.updated_at>>]
    IN  {Out([st EXCEPT !.todo =
                 IF rows # {}
                 THEN SqlUpdate(st.todo, rows, set)
                 ELSE st.todo \cup {TodoToRow(d)}],
             Ok(Unit))}

TodoUpdate(st, d) ==
    LET rows == SqlWhereEq(st.todo, 1, d.id)
        set == [r \in rows |-> <<r[1], d.title, d.status, r[4], d.updated_at>>]
    IN  {Out([st EXCEPT !.todo = SqlUpdate(st.todo, rows, set)], Ok(Unit))}

TodoDelete(st, id) ==
    {Out([st EXCEPT !.todo = SqlDelete(st.todo, SqlWhereEq(st.todo, 1, id))],
         Ok(Unit))}

(***************************************************************************)
(* NotificationRecord                                                      *)
(***************************************************************************)
Unread == 0
Read == 1

NotificationToRow(n) ==
    <<n.id, n.title, n.content, n.type_, n.status, n.related_task_id,
      n.created_at, n.read_at, n.expire_at, n.action_url,
      n.reserved_1, n.reserved_2, n.reserved_3, n.reserved_4, n.reserved_5>>

NotificationFromRow(r) ==
    [id |-> r[1], title |-> r[2], content |-> r[3], type_ |-> r[4],
     status |-> r[5], related_task_id |-> r[6], created_at |-> r[7],
     read_at |-> r[8], expire_at |-> r[9], action_url |-> r[10],
     reserved_1 |-> r[11], reserved_2 |-> r[12], reserved_3 |-> r[13],
     reserved_4 |-> r[14], reserved_5 |-> r[15]]

NotificationCreate(st, n) ==
    LET i == SqlInsert(st.notification_records, NotificationToRow(n))
    IN  IF i.ok
        THEN {Out([st EXCEPT !.notification_records = i.table], Ok(Unit))}
        ELSE {Out(st, Err(ConstraintViolation))}

\* WHERE status = 0 ORDER BY created_at DESC
NotificationGetUnread(st) ==
    LET rows == SqlWhereEq(st.notification_records, 5, 0)
    IN  QueryMapCollect(st, rows, [r \in rows |-> 0 - r[7]],
                        [r \in rows |-> NotificationFromRow(r)])

MarkReadAtOnly(r, t) ==
    <<r[1], r[2], r[3], r[4], r[5], r[6], r[7], Some(t), r[9], r[10],
      r[11], r[12], r[13], r[14], r[15]>>

\* SET status = ?1, read_at = ?2 on the rows a WHERE clause picks.
MarkRead(r, t) ==
    <<r[1], r[2], r[3], r[4], Read, r[6], r[7], Some(t), r[9], r[10],
      r[11], r[12], r[13], r[14], r[15]>>

NotificationMarkAsRead(st, id, t) ==
    LET rows == SqlWhereEq(st.notification_records, 1, id)
        set == [r \in rows |-> MarkRead(r, t)]
    IN  {Out([st EXCEPT !.notification_records =
                 SqlUpdate(st.notification_records, rows, set)], Ok(Unit))}

NotificationMarkAsReadByType(st, type_, t) ==
    LET rows == SqlWhereEq(st.notification_records, 4, type_)
        set == [r \in rows |-> MarkRead(r, t)]
    IN  {Out([st EXCEPT !.notification_records =
                 SqlUpdate(st.notification_records, rows, set)], Ok(Unit))}

NotificationMarkAllAsRead(st, t) ==
    LET rows == SqlWhereEq(st.notification_records, 5, Unread)
        set == [r \in rows |-> MarkRead(r, t)]
    IN  {Out([st EXCEPT !.notification_records =
                 SqlUpdate(st.notification_records, rows, set)], Ok(Unit))}

NotificationGetById(st, id) ==
    LET rows == SqlWhereEq(st.notification_records, 1, id)
    IN  QueryRowOptional(st, rows, [r \in rows |-> NotificationFromRow(r)])

\* created_at and read_at are not among the assigned columns.
NotificationUpdate(st, n) ==
    LET rows == SqlWhereEq(st.notification_records, 1, n.id)
        set == [r \in rows |->
                  <<r[1], n.title, n.content, n.type_, n.status,
                    n.related_task_id, r[7], r[8], n.expire_at, n.action_url,
                    n.reserved_1, n.reserved_2, n.reserved_3, n.reserved_4,
                    n.reserved_5>>]
    IN  {Out([st EXCEPT !.notification_records =
                 SqlUpdate(st.notification_records, rows, set)], Ok(Unit))}

NotificationDelete(st, id) ==
    {Out([st EXCEPT !.notification_records =
             SqlDelete(st.notification_records,
                       SqlWhereEq(st.notification_records, 1, id))],
         Ok(Unit))}

(***************************************************************************)
(* Repository calls.  A call is its repository, its function and its       *)
(* argument.                                                               *)
(***************************************************************************)
Call(r, op, arg) == [repo |-> r, op |-> op, arg |-> arg]

NoCall == Call("none", "none", <<>>)

\* An event whose end lies before its start: nothing in create() refuses it.
MatterInverted(id) ==
    [MatterSample(id, 1) EXCEPT !.start_time = 3, !.end_time = 1]

MatterCalls ==
    {Call("matter", "create", MatterSample(id, s)) : id \in Ids, s \in Samples}
    \cup {Call("matter", "update", MatterSample(id, s)) : id \in Ids, s \in Samples}
    \cup {Call("matter", "get_by_id", id) : id \in Ids}
    \cup {Call("matter", "delete", id) : id \in Ids}
    \cup {Call("matter", "get_all", <<>>)}
    \cup {Call("matter", "get_by_time_range", range) :
            range \in {p \in Instants \X Instants : p[1] <= p[2]}}

\* An event with a title of two characters.
MatterTitled(id) ==
    [MatterSample(id, 2) EXCEPT !.title = "ab", !.start_time = 0]

QueryFields == {"title", "description", "nope"}

QueryValues == {"a", "b", "d", "ab", "a_", "AB", "%"}

MatterQueryCalls ==
    {Call("matter", "query_by_field", <<f, v, e>>) :
        f \in QueryFields, v \in QueryValues, e \in BOOLEAN}

RepeatTaskCalls ==
    {Call("repeat_task", "create", RepeatTaskSample(id, s)) : id \in Ids, s \in Samples}
    \cup {Call("repeat_task", "update", RepeatTaskSample(id, s)) : id \in Ids, s \in Samples}
    \cup {Call("repeat_task", "get_by_id", id) : id \in Ids}
    \cup {Call("repeat_task", "delete", id) : id \in Ids}
    \cup {Call("repeat_task", "update_status", <<id, ns>>) : id \in Ids, ns \in {-1, 2}}
    \cup {Call("repeat_task", "get_all", <<>>),
          Call("repeat_task", "get_active_tasks", <<>>)}

TodoCalls ==
    {Call("todo", "create", TodoSample(id, s)) : id \in Ids, s \in Samples}
    \cup {Call("todo", "update", TodoSample(id, s)) : id \in Ids, s \in Samples}
    \cup {Call("todo", "get_by_id", id) : id \in Ids}
    \cup {Call("todo", "delete", id) : id \in Ids}
    \cup {Call("todo", "get_all", <<>>)}

NotificationCalls ==
    {Call("notification_records", "create", NotificationSample(id, s)) :
        id \in Ids, s \in Samples}
    \cup {Call("notification_records", "update", NotificationSample(id, s)) :
            id \in Ids, s \in Samples}
    \cup {Call("notification_records", "get_by_id", id) : id \in Ids}
    \cup {Call("notification_records", "delete", id) : id \in Ids}
    \cup {Call("notification_records", "mark_as_read", id) : id \in Ids}
    \cup {Call("notification_records", "mark_as_read_by_type", ty) : ty \in {0, 1}}
    \cup {Call("notification_records", "mark_all_as_read", <<>>),
          Call("notification_records", "get_unread", <<>>)}

KVStoreCalls ==
    {Call("kvstore", "set", <<k, v>>) : k \in Keys, v \in {"a", "b"}}
    \cup {Call("kvstore", "get", <<k, "dflt">>) : k \in Keys}
    \cup {Call("kvstore", "delete", k) : k \in Keys}

TagCalls ==
    {Call("tags", "create", n) : n \in Names}
    \cup {Call("tags", "update_last_used_at", n) : n \in Names}
    \cup {Call("tags", "delete", n) : n \in Names}
    \cup {Call("tags", "get_all", <<>>)}

Repos == {"matter", "repeat_task", "todo", "notification_records", "kvstore", "tags"}

CallsOf(r) ==
    CASE r = "matter" -> MatterCalls
      [] r = "repeat_task" -> RepeatTaskCalls
      [] r = "todo" -> TodoCalls
      [] r = "notification_records" -> NotificationCalls
      [] r = "kvstore" -> KVStoreCalls
      [] r = "tags" -> TagCalls

\* The functions that take conn.conn.write(); every other function takes
\* conn.conn.read().
WriteOps ==
    {"create", "update", "delete", "set", "update_status", "update_last_used_at",
     "mark_as_read", "mark_as_read_by_type", "mark_all_as_read"}

LockMode(c) == IF c.op \in WriteOps THEN "write" ELSE "read"

\* How many times the call evaluates Utc::now().
ClockReads(c) ==
    CASE c.repo = "tags" /\ c.op = "create" -> 2
      [] c.op \in {"set", "update_last_used_at", "update_status", "mark_as_read",
                   "mark_as_read_by_type", "mark_all_as_read"} -> 1
      [] OTHER -> 0

\* The statement of call c on store st, the clock reading t1 and then t2: the
\* outcomes [store, res] it can have.
MatterOutcomes(c, st) ==
    CASE c.op = "create" -> MatterCreate(st, c.arg)
      [] c.op = "get_by_id" -> MatterGetById(st, c.arg)
      [] c.op = "get_all" -> MatterGetAll(st)
      [] c.op = "get_by_time_range" -> MatterGetByTimeRange(st, c.arg[1], c.arg[2])
      [] c.op = "query_by_field" ->
            MatterQueryByField(st, c.arg[1], c.arg[2], c.arg[3])
      [] c.op = "update" -> MatterUpdate(st, c.arg)
      [] c.op = "delete" -> MatterDelete(st, c.arg)

KVStoreOutcomes(c, st, t1) ==
    CASE c.op = "set" -> KVStoreSet(st, c.arg[1], c.arg[2], t1)
      [] c.op = "get" -> KVStoreGet(st, c.arg[1], c.arg[2])
      [] c.op = "delete" -> KVStoreDelete(st, c.arg)

TagOutcomes(c, st, t1, t2) ==
    CASE c.op = "create" -> TagCreate(st, c.arg, t1, t2)
      [] c.op = "get_all" -> TagGetAll(st)
      [] c.op = "update_last_used_at" -> TagUpdateLastUsedAt(st, c.arg, t1)
      [] c.op = "delete" -> TagDelete(st, c.arg)

RepeatTaskOutcomes(c, st, t1) ==
    CASE c.op = "create" -> RepeatTaskCreate(st, c.arg)
      [] c.op = "get_by_id" -> RepeatTaskGetById(st, c.arg)
      [] c.op = "get_all" -> RepeatTaskGetAll(st)
      [] c.op = "get_active_tasks" -> RepeatTaskGetActiveTasks(st)
      [] c.op = "update" -> RepeatTaskUpdate(st, c.arg)
      [] c.op = "delete" -> RepeatTaskDelete(st, c.arg)
      [] c.op = "update_status" -> RepeatTaskUpdateStatus(st, c.arg[1], c.arg[2], t1)

TodoOutcomes(c, st) ==
    CASE c.op = "create" -> TodoCreate(st, c.arg)
      [] c.op = "get_by_id" -> TodoGetById(st, c.arg)
      [] c.op = "get_all" -> TodoGetAll(st)
      [] c.op = "update" -> TodoUpdate(st, c.arg)
      [] c.op = "delete" -> TodoDelete(st, c.arg)

NotificationOutcomes(c, st, t1) ==
    CASE c.op = "create" -> NotificationCreate(st, c.arg)
      [] c.op = "get_unread" -> NotificationGetUnread(st)
      [] c.op = "mark_as_read" -> NotificationMarkAsRead(st, c.arg, t1)
      [] c.op = "mark_as_read_by_type" -> NotificationMarkAsReadByType(st, c.arg, t1)
      [] c.op = "mark_all_as_read" -> NotificationMarkAllAsRead(st, t1)
      [] c.op = "get_by_id" -> NotificationGetById(st, c.arg)
      [] c.op = "update" -> NotificationUpdate(st, c.arg)
      [] c.op = "delete" -> NotificationDelete(st, c.arg)

Outcomes(c, st, t1, t2) ==
    CASE c.repo = "matter" -> MatterOutcomes(c, st)
      [] c.repo = "kvstore" -> KVStoreOutcomes(c, st, t1)
      [] c.repo = "tags" -> TagOutcomes(c, st, t1, t2)
      [] c.repo = "repeat_task" -> RepeatTaskOutcomes(c, st, t1)
      [] c.repo = "todo" -> TodoOutcomes(c, st)
      [] c.repo = "notification_records" -> NotificationOutcomes(c, st, t1)

\* The clock does not run backwards; between two readings it stands still or
\* advances by one.
Tick(t) == IF t < MaxClock THEN {t, t + 1} ELSE {t}

\* The readings <<t1, t2>> call c can take from a clock last seen at t.
Readings(c, t) ==
    CASE ClockReads(c) = 0 -> {<<t, t>>}
      [] ClockReads(c) = 1 -> {<<t1, t1>> : t1 \in Tick(t)}
      [] OTHER -> UNION {{<<t1, t2>> : t2 \in Tick(t1)} : t1 \in Tick(t)}

(***************************************************************************)
(* SafeConnection: the RwLock around the connection.  writer is the thread  *)
(* holding the write guard (0: none), readers the threads holding a read   *)
(* guard, poisoned the lock's poison flag.                                 *)
(***************************************************************************)
NoThread == 0

NoRes == [kind |-> "none", val |-> <<>>]

LockFree == writer = NoThread /\ readers = {}

\* conn.conn.read() is granted while no write guard is out.
CanRead == writer = NoThread

CanWriteAmongReaders == writer = NoThread

\* conn.conn.write() is granted while no guard at all is out.
CanWrite == writer = NoThread /\ readers = {}

\* The guard is a local of the call: it is dropped when the call returns,
\* through Ok, through ? or by unwinding.
ReadersKept(t) == readers

ReadersAfterDrop(t) == readers \ {t}

WriterKeptOnError(t) ==
    IF res[t].kind = "err" \/ writer # t THEN writer ELSE NoThread

WriterAfterDrop(t) == IF writer = t THEN NoThread ELSE writer

(***************************************************************************)
(* One caller at a time: a call runs from its lock acquisition to its      *)
(* return with no other call in between.  last is the call that returned   *)
(* last, with its result and the first clock reading it took.              *)
(***************************************************************************)
Returned(c, r, t) == [call |-> c, res |-> r, at |-> t]

Invoke(c) ==
    /\ IF LockMode(c) = "write" THEN CanWrite ELSE CanRead
    /\ ~poisoned
    /\ \E ts \in Readings(c, now) :
         \E o \in Outcomes(c, store, ts[1], ts[2]) :
            /\ store' = o.store
            /\ last' = Returned(c, o.res, ts[1])
            /\ now' = ts[2]
    /\ UNCHANGED <<repo, pc, cur, res, readers, writer, poisoned, schema>>

\* A store the database file can hold when it is opened: nothing, or one row
\* in each table left by an earlier run.
SeedStore ==
    [matter |-> {MatterToRow(MatterSample(MaxId, 1))},
     kvstore |-> {<<"k2", "seed", 0, 0>>},
     tags |-> {<<"y", 0, 0>>},
     repeat_task |-> {RepeatTaskToRow(RepeatTaskSample(MaxId, 1))},
     todo |-> {TodoToRow(TodoSample(MaxId, 1))},
     notification_records |-> {NotificationToRow(NotificationSample(MaxId, 1))}]

InitThreads ==
    /\ pc = [t \in Threads |-> "idle"]
    /\ cur = [t \in Threads |-> NoCall]
    /\ res = [t \in Threads |-> NoRes]
    /\ readers = {}
    /\ writer = NoThread
    /\ poisoned = FALSE

\* The functions every repository has in one form or another: insert a row,
\* look one up, list the table, rewrite a row, remove one.
CrudOps == {"create", "set", "get_by_id", "get", "get_all", "update", "delete"}

CrudCallsOf(r) == {c \in CallsOf(r) : c.op \in CrudOps}

\* A session works one repository, repo, through its CrudOps; the other
\* tables keep what the file held.
Init ==
    /\ store \in {EmptyStore, SeedStore}
    /\ now = 1
    /\ last = Returned(NoCall, NoRes, 0)
    /\ log = <<>>
    /\ repo \in Repos
    /\ schema = Schema
    /\ InitThreads

Step == \E c \in CrudCallsOf(repo) : Invoke(c) /\ UNCHANGED log

Next == Step

Spec == Init /\ [][Next]_vars

(***************************************************************************)
(* A key-value session on a fresh store, with the calls it made kept in    *)
(* log, oldest first.                                                      *)
(***************************************************************************)
InitKV ==
    /\ store = EmptyStore
    /\ now = 1
    /\ last = Returned(NoCall, NoRes, 0)
    /\ log = <<>>
    /\ repo = "kvstore"
    /\ schema = Schema
    /\ InitThreads

StepKV ==
    /\ Len(log) < MaxCalls
    /\ \E c \in KVStoreCalls : Invoke(c) /\ log' = Append(log, last')

NextKV == StepKV

SpecKV == InitKV /\ [][NextKV]_vars

(***************************************************************************)
(* Sessions on one repository through every function it has, on a file an  *)
(* earlier run left one row per table in (SeedStore, the row of id MaxId).  *)
(* The session names the ids of RowIds; the seeded row is reached by the   *)
(* functions that take no id.  The event session also creates events that  *)
(* end before they start.                                                  *)
(***************************************************************************)
\* The ids a call names.
Touches(c) ==
    CASE c.repo \in {"kvstore", "tags"} -> {}
      [] c.op \in {"create", "update"} -> {c.arg.id}
      [] c.op \in {"get_by_id", "delete", "mark_as_read"} -> {c.arg}
      [] c.op = "update_status" -> {c.arg[1]}
      [] OTHER -> {}

SessionCalls(r) == {c \in CallsOf(r) : Touches(c) \subseteq RowIds}

InitOn(r) ==
    /\ store = SeedStore
    /\ now = 1
    /\ last = Returned(NoCall, NoRes, 0)
    /\ log = <<>>
    /\ repo = r
    /\ schema = Schema
    /\ InitThreads

InitMatter == InitOn("matter")

StepMatter ==
    \/ \E c \in SessionCalls("matter") : Invoke(c) /\ UNCHANGED log
    \/ \E id \in RowIds :
          Invoke(Call("matter", "create", MatterInverted(id))) /\ UNCHANGED log

NextMatter == StepMatter

SpecMatter == InitMatter /\ [][NextMatter]_vars

\* The event session with the searches by field next to the creates and
\* deletes that change what there is to find.
InitQuery == InitOn("matter")

StepQuery ==
    \/ \E c \in MatterQueryCalls : Invoke(c) /\ UNCHANGED log
    \/ \E id \in RowIds :
          \/ Invoke(Call("matter", "create", MatterTitled(id))) /\ UNCHANGED log
          \/ Invoke(Call("matter", "create", MatterSample(id, 2))) /\ UNCHANGED log
    \/ \E id \in RowIds : Invoke(Call("matter", "delete", id)) /\ UNCHANGED log

NextQuery == StepQuery

SpecQuery == InitQuery /\ [][NextQuery]_vars

InitTask == InitOn("repeat_task")

StepTask == \E c \in SessionCalls("repeat_task") : Invoke(c) /\ UNCHANGED log

NextTask == StepTask

SpecTask == InitTask /\ [][NextTask]_vars

InitNotification == InitOn("notification_records")

StepNotification ==
    \E c \in SessionCalls("notification_records") : Invoke(c) /\ UNCHANGED log

NextNotification == StepNotification

SpecNotification == InitNotification /\ [][NextNotification]_vars

(***************************************************************************)
(* A session on any one repository, on a file whose rows name one another: *)
(* the seeded event carries the seeded tag, the seeded notification names  *)
(* a task id the session creates and deletes.                              *)
(***************************************************************************)
LinkedStore ==
    [SeedStore EXCEPT
       !.matter = {MatterToRow([MatterSample(MaxId, 1) EXCEPT !.tags = Some("y")])},
       !.notification_records =
          {NotificationToRow([NotificationSample(MaxId, 1)
                                EXCEPT !.related_task_id = Some(1)])}]

InitLinked ==
    /\ store = LinkedStore
    /\ now = 1
    /\ last = Returned(NoCall, NoRes, 0)
    /\ log = <<>>
    /\ repo \in Repos
    /\ schema = Schema
    /\ InitThreads

StepLinked == \E c \in SessionCalls(repo) : Invoke(c) /\ UNCHANGED log

NextLinked == StepLinked

SpecLinked == InitLinked /\ [][NextLinked]_vars

(***************************************************************************)
(* initialize_database on a file an earlier run of any version left: any   *)
(* of the tables and the index may be there, the tables with or without    *)
(* rows.  The statements run one after the other, each ending the function *)
(* with its error if it fails (?); log holds the names of those issued.    *)
(***************************************************************************)
NoSuchTable == "no such table"

CreateTable(name) == [kind |-> "table", name |-> name, on |-> name]

CreateIndex(name, table) == [kind |-> "index", name |-> name, on |-> table]

\* The statements of initialize_database in the order of the source.
InitStatements ==
    <<CreateTable("matter"), CreateTable("kvstore"), CreateTable("tags"),
      CreateIndex("idx_matter_time", "matter"), CreateTable("repeat_task"),
      CreateTable("todo"), CreateTable("notification_records")>>

SqlCreateTableReplacing(sch, st, name) ==
    [ok |-> TRUE, schema |-> sch \cup {name}, store |-> [st EXCEPT ![name] = {}]]

\* CREATE TABLE IF NOT EXISTS name (...): nothing when the table is there,
\* a new table without rows when it is not.
SqlCreateTableIfNotExists(sch, st, name) ==
    IF name \in sch
    THEN [ok |-> TRUE, schema |-> sch, store |-> st]
    ELSE [ok |-> TRUE, schema |-> sch \cup {name},
          store |-> [st EXCEPT ![name] = {}]]

\* CREATE INDEX IF NOT EXISTS name ON table (...): fails when the table is
\* not there; rows are not touched.
SqlCreateIndexIfNotExists(sch, st, name, table) ==
    IF name \in sch
    THEN [ok |-> TRUE, schema |-> sch, store |-> st]
    ELSE IF table \in sch
         THEN [ok |-> TRUE, schema |-> sch \cup {name}, store |-> st]
         ELSE [ok |-> FALSE, schema |-> sch, store |-> st]

SqlExecuteDdl(sch, st, stmt) ==
    IF stmt.kind = "table"
    THEN SqlCreateTableIfNotExists(sch, st, stmt.name)
    ELSE SqlCreateIndexIfNotExists(sch, st, stmt.name, stmt.on)

InitializeCall == Call("none", "initialize_database", <<>>)

\* A file as open_with_flags(READ_WRITE | CREATE) finds or makes it.
InitSchema ==
    /\ schema \in {s \in SUBSET Schema : "idx_matter_time" \in s => "matter" \in s}
    /\ store \in {EmptyStore,
                  [t \in Tables |-> IF t \in schema THEN SeedStore[t] ELSE {}]}
    /\ now = 1
    /\ last = Returned(NoCall, NoRes, 0)
    /\ log = <<>>
    /\ repo = "none"
    /\ InitThreads

\* The next statement of initialize_database; after the last one the
\* function returns Ok with the connection.
InitializeStep ==
    /\ last.res = NoRes
    /\ Len(log) < Len(InitStatements)
    /\ LET stmt == InitStatements[Len(log) + 1]
           x == SqlExecuteDdl(schema, store, stmt)
       IN  /\ log' = Append(log, stmt.name)
           /\ schema' = x.schema
           /\ store' = x.store
           /\ last' = IF ~x.ok
                      THEN Returned(InitializeCall, Err(NoSuchTable), now)
                      ELSE IF Len(log) + 1 = Len(InitStatements)
                           THEN Returned(InitializeCall, Ok(Unit), now)
                           ELSE last
    /\ UNCHANGED <<now, repo, pc, cur, res, readers, writer, poisoned>>

NextSchema == InitializeStep

SpecSchema == InitSchema /\ [][NextSchema]_vars

(***************************************************************************)
(* Concurrent callers.  Thread t is idle, waiting for the lock of the call *)
(* cur[t], holding it before its statement ran, or executed: the statement *)
(* ran with result res[t] and the call is about to return.  A panicked     *)
(* thread is gone.                                                         *)
(***************************************************************************)
ConcCalls ==
    {Call("matter", "create", MatterSample(1, 1)),
     Call("matter", "update", MatterSample(1, 2)),
     Call("matter", "get_all", <<>>),
     Call("matter", "get_by_id", 1),
     Call("todo", "get_by_id", 1)}

Holding(t) == pc[t] \in {"holding", "executed"}

Panic(why) == [kind |-> "panic", val |-> why]

\* What a statement can yield when it runs on the connection while another
\* thread is inside the connection too.  SafeConnection is declared Sync by
\* hand and the connection is opened with SQLITE_OPEN_NO_MUTEX, so two read
\* guards let two threads into one unsynchronised handle: a data race, whose
\* result is the right one, anything else, or a panic.
Garbage == [kind |-> "garbage", val |-> <<>>]

Begin(t, c) ==
    /\ pc[t] = "idle"
    /\ pc' = [pc EXCEPT ![t] = "waiting"]
    /\ cur' = [cur EXCEPT ![t] = c]
    /\ res' = [res EXCEPT ![t] = NoRes]
    /\ UNCHANGED <<store, now, last, log, repo, readers, writer, poisoned, schema>>

\* conn.conn.read().unwrap() / conn.conn.write().unwrap(): blocks until the
\* lock is granted; on a poisoned lock the Err carries the guard, unwrap
\* panics and the guard is dropped with it.
Acquire(t) ==
    /\ pc[t] = "waiting"
    /\ IF LockMode(cur[t]) = "write" THEN CanWrite ELSE CanRead
    /\ IF poisoned
       THEN /\ pc' = [pc EXCEPT ![t] = "panicked"]
            /\ res' = [res EXCEPT ![t] = Panic("PoisonError")]
            /\ UNCHANGED <<readers, writer>>
       ELSE /\ pc' = [pc EXCEPT ![t] = "holding"]
            /\ IF LockMode(cur[t]) = "write"
               THEN writer' = t /\ UNCHANGED readers
               ELSE readers' = readers \cup {t} /\ UNCHANGED writer
            /\ UNCHANGED res
    /\ UNCHANGED <<store, now, last, log, repo, cur, poisoned, schema>>

\* Another thread holds a guard on the connection at this moment.
Shared(t) == \E u \in Threads \ {t} : u \in readers \/ writer = u

\* The statement of the call runs under the guard.
Execute(t) ==
    /\ pc[t] = "holding"
    /\ \E ts \in Readings(cur[t], now) :
         \E o \in Outcomes(cur[t], store, ts[1], ts[2]) :
            /\ store' = o.store
            /\ res' = [res EXCEPT ![t] = o.res]
            /\ now' = ts[2]
    /\ pc' = [pc EXCEPT ![t] = "executed"]
    /\ UNCHANGED <<last, log, repo, cur, readers, writer, poisoned, schema>>

\* The statement runs while another thread is inside the connection and the
\* race shows: a result that is not the statement's, or a panic under the
\* read guard (which unwinding drops; a read guard does not poison).
ExecuteRacing(t) ==
    /\ pc[t] = "holding"
    /\ Shared(t)
    /\ \/ /\ pc' = [pc EXCEPT ![t] = "executed"]
          /\ res' = [res EXCEPT ![t] = Garbage]
          /\ UNCHANGED <<readers, writer>>
       \/ /\ pc' = [pc EXCEPT ![t] = "panicked"]
          /\ res' = [res EXCEPT ![t] = Panic("race")]
          /\ readers' = ReadersAfterDrop(t)
          /\ writer' = WriterAfterDrop(t)
    /\ UNCHANGED <<store, now, last, log, repo, cur, poisoned, schema>>

\* The call returns res[t] to its caller and its guard is dropped.
Return(t) ==
    /\ pc[t] = "executed"
    /\ pc' = [pc EXCEPT ![t] = "idle"]
    /\ readers' = ReadersAfterDrop(t)
    /\ writer' = WriterAfterDrop(t)
    /\ last' = Returned(cur[t], res[t], now)
    /\ cur' = [cur EXCEPT ![t] = NoCall]
    /\ res' = [res EXCEPT ![t] = NoRes]
    /\ UNCHANGED <<store, now, log, repo, poisoned, schema>>

\* A thread panics inside its statement while it holds the write guard:
\* unwinding drops the guard, and dropping a write guard during a panic
\* poisons the lock.
WriterPanics(t) ==
    /\ pc[t] = "holding"
    /\ writer = t
    /\ pc' = [pc EXCEPT ![t] = "panicked"]
    /\ res' = [res EXCEPT ![t] = Panic("statement")]
    /\ writer' = WriterAfterDrop(t)
    /\ readers' = ReadersAfterDrop(t)
    /\ poisoned' = TRUE
    /\ UNCHANGED <<store, now, last, log, repo, cur, schema>>

InitConc ==
    /\ store = EmptyStore
    /\ now = 1
    /\ last = Returned(NoCall, NoRes, 0)
    /\ log = <<>>
    /\ repo = "matter"
    /\ schema = Schema
    /\ InitThreads

NextConc ==
    \E t \in Threads :
        \/ \E c \in ConcCalls : Begin(t, c)
        \/ Acquire(t)
        \/ Execute(t)
        \/ ExecuteRacing(t)
        \/ Return(t)
        \/ WriterPanics(t)

SpecConc == InitConc /\ [][NextConc]_vars

(***************************************************************************)
(* Concurrent callers of the tag repository, on the seeded file.           *)
(***************************************************************************)
TagConcCalls ==
    {Call("tags", "create", "x"),
     Call("tags", "update_last_used_at", "x"),
     Call("tags", "delete", "x"),
     Call("tags", "get_all", <<>>)}

InitConcTag ==
    /\ store = SeedStore
    /\ now = 1
    /\ last = Returned(NoCall, NoRes, 0)
    /\ log = <<>>
    /\ repo = "tags"
    /\ schema = Schema
    /\ InitThreads

NextConcTag ==
    \E t \in Threads :
        \/ \E c \in TagConcCalls : Begin(t, c)
        \/ Acquire(t)
        \/ Execute(t)
        \/ ExecuteRacing(t)
        \/ Return(t)
        \/ WriterPanics(t)

SpecConcTag == InitConcTag /\ [][NextConcTag]_vars

(***************************************************************************)
(* Concurrent callers of any one repository, on the seeded file: all of    *)
(* them write the row of one primary key (id 1, key "k1", name "x") and    *)
(* read the table; the updates carry the second sample.                    *)
(***************************************************************************)
ConcWriteCalls(r) ==
    CASE r = "kvstore" ->
            {Call(r, "set", <<"k1", "a">>), Call(r, "set", <<"k1", "b">>),
             Call(r, "delete", "k1"), Call(r, "get", <<"k1", "dflt">>)}
      [] r = "tags" -> TagConcCalls
      [] OTHER ->
            {c \in CallsOf(r) :
                /\ c.op \in {"create", "update", "delete"}
                /\ Touches(c) = {1}
                /\ c.op = "update" => c.arg.title = "b"}
            \cup {Call(r, IF r = "notification_records" THEN "get_unread"
                           ELSE "get_all", <<>>)}

InitConcWrite ==
    /\ store = SeedStore
    /\ now = 1
    /\ last = Returned(NoCall, NoRes, 0)
    /\ log = <<>>
    /\ repo \in Repos
    /\ schema = Schema
    /\ InitThreads

NextConcWrite ==
    \E t \in Threads :
        \/ \E c \in ConcWriteCalls(repo) : Begin(t, c)
        \/ Acquire(t)
        \/ Execute(t)
        \/ ExecuteRacing(t)
        \/ Return(t)
        \/ WriterPanics(t)

SpecConcWrite == InitConcWrite /\ [][NextConcWrite]_vars

(***************************************************************************)
(* Finitely many concurrent calls under a fair scheduler.  log holds one   *)
(* entry per call begun, at most MaxCalls of them.  A thread that can take *)
(* a step of its call, and stays able to, takes it: a waiter whose lock    *)
(* stays free is granted it (Acquire), a statement under the guard runs to *)
(* its end (Execute), a finished call returns (Return).  Nothing is asked  *)
(* of the order in which the lock serves its waiters: RwLock promises none.*)
(***************************************************************************)
LiveCalls ==
    {Call("matter", "create", MatterSample(1, 1)),
     Call("matter", "get_all", <<>>)}

BeginLive(t, c) ==
    /\ Len(log) < MaxCalls
    /\ pc[t] = "idle"
    /\ pc' = [pc EXCEPT ![t] = "waiting"]
    /\ cur' = [cur EXCEPT ![t] = c]
    /\ res' = [res EXCEPT ![t] = NoRes]
    /\ log' = Append(log, c.op)
    /\ UNCHANGED <<store, now, last, repo, readers, writer, poisoned, schema>>

NextLive ==
    \E t \in Threads :
        \/ \E c \in LiveCalls : BeginLive(t, c)
        \/ Acquire(t)
        \/ Execute(t)
        \/ ExecuteRacing(t)
        \/ Return(t)
        \/ WriterPanics(t)

FairScheduler ==
    \A t \in Threads :
        /\ WF_vars(Acquire(t))
        /\ WF_vars(Execute(t))
        /\ WF_vars(Return(t))

SpecLive == InitConc /\ [][NextLive]_vars /\ FairScheduler

(***************************************************************************)
(* Properties of one caller's calls (Spec).  In a step of Spec, last' is   *)
(* the call the step made and store the tables it found.                   *)
(***************************************************************************)
CrudRepos == {"matter", "repeat_task", "todo", "notification_records"}

\* The rows of the tags table of st named n.
TagsNamed(st, n) == {r \in st.tags : r[1] = n}

\* The elements of the list q.
Elems(q) == {q[i] : i \in 1..Len(q)}

\* The table of the repository of call c in store st.
TableOf(st, c) == st[c.repo]

\* The primary key an update or a delete names.
KeyOf(c) == IF c.op = "update" THEN c.arg.id ELSE c.arg

\* C1: create(v) of an id not yet stored, immediately followed by
\* get_by_id(v.id), yields Ok(Some(v)) with v equal in every field, for
\* matter, repeat_task, todo and notification_records.
C1_RoundTrip ==
    [][ ( /\ last.call.op = "create"
          /\ last.call.repo \in CrudRepos
          /\ last.res = Ok(Unit)
          /\ last'.call.op = "get_by_id"
          /\ last'.call.repo = last.call.repo
          /\ last'.call.arg = last.call.arg.id )
        => last'.res = Ok(Some(last.call.arg)) ]_vars

\* C5: create(v) while a row with key v.id is stored returns the constraint
\* violation and leaves every table as it was.
C5_DuplicateCreate ==
    [][ ( /\ last'.call.op = "create"
          /\ last'.call.repo \in CrudRepos
          /\ last'.call.arg.id \in PkSet(TableOf(store, last'.call)) )
        => ( /\ last'.res = Err(ConstraintViolation)
             /\ store' = store ) ]_vars

\* A duplicate create was refused and the stored row, which differs from the
\* one offered, is still there.
C5_Witness ==
    /\ last.call.op = "create"
    /\ last.call.repo = "notification_records"
    /\ last.res = Err(ConstraintViolation)
    /\ \E r \in store.notification_records :
         /\ r[1] = last.call.arg.id
         /\ r # NotificationToRow(last.call.arg)
    /\ Cardinality(store.notification_records) = 2

\* C6: get_by_id(id) of an id that is not stored returns Ok(None), never an
\* error, for matter, repeat_task, todo and notification_records.
C6_NotFoundIsNone ==
    [][ ( /\ last'.call.op = "get_by_id"
          /\ last'.call.repo \in CrudRepos
          /\ last'.call.arg \notin PkSet(TableOf(store, last'.call)) )
        => last'.res = Ok(None) ]_vars

\* C7: update() and delete() of a key that is not stored return Ok(()) and
\* leave every table as it was.
C7_MissingIdNoOps ==
    [][ ( /\ last'.call.op \in {"update", "delete"}
          /\ KeyOf(last'.call) \notin PkSet(TableOf(store, last'.call)) )
        => ( /\ last'.res = Ok(Unit)
             /\ store' = store ) ]_vars

\* The list q holds every element of the set S once and nothing else.
ListsOnce(q, S) == Len(q) = Cardinality(S) /\ Elems(q) = S

\* C13: get_all() returns Ok with every stored row of its table exactly once,
\* by start_time ascending for matter, by created_at descending for
\* repeat_task and todo, by name ascending for tags, and changes no table.
C13_GetAllOrdered ==
    [][ last'.call.op = "get_all" =>
          LET q == last'.res.val
              Ordered(i, j) ==
                CASE last'.call.repo = "matter" ->
                       q[i].start_time <= q[j].start_time
                  [] last'.call.repo \in {"repeat_task", "todo"} ->
                       q[i].created_at >= q[j].created_at
                  [] last'.call.repo = "tags" ->
                       NameRank(q[i].name) < NameRank(q[j].name)
              Rows ==
                CASE last'.call.repo = "matter" ->
                       {MatterFromRow(r) : r \in store.matter}
                  [] last'.call.repo = "repeat_task" ->
                       {RepeatTaskFromRow(r) : r \in store.repeat_task}
                  [] last'.call.repo = "todo" ->
                       {TodoFromRow(r) : r \in store.todo}
                  [] last'.call.repo = "tags" ->
                       {TagFromRow(r) : r \in store.tags}
          IN  /\ last'.res.kind = "ok"
              /\ store' = store
              /\ ListsOnce(q, Rows)
              /\ \A i, j \in 1..Len(q) : i < j => Ordered(i, j) ]_vars

\* get_all() of todo listed two rows, the later created first.
C13_Witness ==
    /\ last.call.op = "get_all"
    /\ last.call.repo = "todo"
    /\ last.res.kind = "ok"
    /\ Len(last.res.val) = 2
    /\ last.res.val[1].created_at > last.res.val[2].created_at
    /\ last.res.val[1].id > last.res.val[2].id

\* The column that holds created_at in the table of repository r.
CreatedAtCol(r) ==
    CASE r = "matter" -> 9
      [] r = "repeat_task" -> 6
      [] r = "todo" -> 4
      [] r = "notification_records" -> 7

\* The row whose cells are the fields of the value call c passes.
RowOf(c) ==
    CASE c.repo = "matter" -> MatterToRow(c.arg)
      [] c.repo = "repeat_task" -> RepeatTaskToRow(c.arg)
      [] c.repo = "todo" -> TodoToRow(c.arg)
      [] c.repo = "notification_records" -> NotificationToRow(c.arg)

\* C16: v.update() while a row of id v.id is stored returns Ok(()) and leaves
\* that row with the cells of v in every column but created_at, which keeps
\* its value (as does id); every other row and every other table stays.
C16_FullRowUpdate ==
    [][ ( /\ last'.call.op = "update"
          /\ last'.call.repo \in CrudRepos
          /\ last'.call.arg.id \in PkSet(TableOf(store, last'.call)) )
        => LET c == last'.call
               cc == CreatedAtCol(c.repo)
           IN  /\ last'.res = Ok(Unit)
               /\ \A r \in SqlWhereEq(TableOf(store, c), 1, c.arg.id) :
                     TableOf(store', c)
                       = (TableOf(store, c) \ {r})
                           \cup {[RowOf(c) EXCEPT ![cc] = r[cc]]}
               /\ \A o \in Repos \ {c.repo} : store'[o] = store[o] ]_vars

\* C17: the ids of the stored events change only by create and delete, and
\* no step leaves an event with an updated_at earlier than the one it had.
C17_EventFreshness ==
    [][ /\ last'.call.op \notin {"create", "delete"}
            => PkSet(store'.matter) = PkSet(store.matter)
        /\ \A r \in store.matter :
              \A q \in store'.matter :
                 r[1] = q[1] => q[10] >= r[10] ]_vars

\* An update of an id that is not stored returned Ok(()) next to a stored row
\* of another id.
C7_Witness ==
    /\ last.call.op = "update"
    /\ last.res = Ok(Unit)
    /\ TableOf(store, last.call) # {}
    /\ last.call.arg.id \notin PkSet(TableOf(store, last.call))

(***************************************************************************)
(* Properties of a key-value session (SpecKV), stated on its log.          *)
(***************************************************************************)
Prefix(l, n) == SubSeq(l, 1, n)

\* What the calls of l leave under key k: the value of the last set(k, _) no
\* delete(k) follows, or None.
RECURSIVE Stored(_, _)
Stored(l, k) ==
    IF l = <<>> THEN None
    ELSE LET e == l[Len(l)]
         IN  IF e.call.op = "set" /\ e.call.arg[1] = k THEN Some(e.call.arg[2])
             ELSE IF e.call.op = "delete" /\ e.call.arg = k THEN None
             ELSE Stored(Prefix(l, Len(l) - 1), k)

\* The time of the last set(k, _) of l, when k is stored after l.
RECURSIVE SetAt(_, _)
SetAt(l, k) ==
    IF l = <<>> THEN None
    ELSE LET e == l[Len(l)]
         IN  IF e.call.op = "set" /\ e.call.arg[1] = k THEN Some(e.at)
             ELSE IF e.call.op = "delete" /\ e.call.arg = k THEN None
             ELSE SetAt(Prefix(l, Len(l) - 1), k)

\* The time of the set(k, _) that inserted the row k has after l: the first
\* set(k, _) since the last delete(k).
RECURSIVE InsertedAt(_, _)
InsertedAt(l, k) ==
    IF l = <<>> THEN None
    ELSE LET e == l[Len(l)]
             before == InsertedAt(Prefix(l, Len(l) - 1), k)
         IN  IF e.call.op = "set" /\ e.call.arg[1] = k
             THEN (IF before = None THEN Some(e.at) ELSE before)
             ELSE IF e.call.op = "delete" /\ e.call.arg = k THEN None
             ELSE before

RowsOfKey(k) == {r \in store.kvstore : r[1] = k}

\* C9: after set(k, v1), set(k, v2), get(k, d) the get returned v2, and the
\* store holds one row for k, with value v2, the created_at the row had after
\* the first set and the second set's time as updated_at, which is later
\* than the first set's when the clock advanced in between.
C9_Upsert ==
    \A i \in 1..(Len(log) - 2) :
        LET a == log[i]
            b == log[i + 1]
            g == log[i + 2]
            k == a.call.arg[1]
        IN  ( /\ a.call.op = "set"
              /\ b.call.op = "set" /\ b.call.arg[1] = k
              /\ g.call.op = "get" /\ g.call.arg[1] = k )
            => /\ a.res = Ok(Unit) /\ b.res = Ok(Unit)
               /\ g.res = Ok(b.call.arg[2])
               /\ i + 2 = Len(log) =>
                    /\ Cardinality(RowsOfKey(k)) = 1
                    /\ \A r \in RowsOfKey(k) :
                         /\ r[2] = b.call.arg[2]
                         /\ Some(r[3]) = InsertedAt(Prefix(log, i), k)
                         /\ r[4] = b.at
                         /\ r[3] <= r[4]
                         /\ b.at > a.at => r[4] > a.at /\ r[4] > r[3]

\* set(k, v1), set(k, v2), get(k, d) just ran on a key that was not stored,
\* with v1 # v2 and the clock advancing between the sets.
C9_Witness ==
    /\ Len(log) >= 3
    /\ LET a == log[Len(log) - 2]
           b == log[Len(log) - 1]
           g == log[Len(log)]
       IN  /\ a.call.op = "set" /\ b.call.op = "set" /\ g.call.op = "get"
           /\ a.call.arg[1] = b.call.arg[1] /\ g.call.arg[1] = a.call.arg[1]
           /\ a.call.arg[2] # b.call.arg[2]
           /\ b.at > a.at
           /\ Stored(Prefix(log, Len(log) - 3), a.call.arg[1]) = None

\* C10: get(k, d) returns the value of the last set(k, _) that no delete(k)
\* follows and d when there is none, never an error, and the table is what
\* the sets and deletes alone left (a get changes no row).
C10_GetWithDefault ==
    /\ \A i \in 1..Len(log) :
         log[i].call.op = "get" =>
            LET k == log[i].call.arg[1]
                v == Stored(Prefix(log, i - 1), k)
            IN  log[i].res = Ok(IF v = None THEN log[i].call.arg[2] ELSE v[1])
    /\ \A k \in Keys :
         IF Stored(log, k) = None
         THEN RowsOfKey(k) = {}
         ELSE RowsOfKey(k) =
                {<<k, Stored(log, k)[1], InsertedAt(log, k)[1], SetAt(log, k)[1]>>}

\* A get returned the default for a key that was set and then deleted, right
\* after a get of another key returned its stored value.
C10_Witness ==
    /\ Len(log) >= 4
    /\ \E k1, k2 \in Keys :
         /\ k1 # k2
         /\ log[1].call.op = "set" /\ log[1].call.arg[1] = k1
         /\ log[2].call.op = "delete" /\ log[2].call.arg = k1
         /\ log[3].call.op = "set" /\ log[3].call.arg[1] = k2
         /\ log[4].call.op = "get" /\ log[4].call.arg[1] = k1
         /\ log[4].res = Ok("dflt")
         /\ RowsOfKey(k1) = {} /\ RowsOfKey(k2) # {}

(***************************************************************************)
(* Properties of the sessions on one repository (SpecMatter, SpecTask,     *)
(* SpecNotification).                                                      *)
(***************************************************************************)
\* C12: get_by_time_range(start, end) with start <= end returns Ok with a
\* list of stored events, none twice, ascending by start_time, that holds a
\* stored event with start_time <= end_time if and only if
\* event.start_time <= end and event.end_time >= start; the call changes no
\* table.
C12_IntervalOverlap ==
    [][ last'.call.op = "get_by_time_range" =>
          LET start == last'.call.arg[1]
              end == last'.call.arg[2]
              q == last'.res.val
          IN  /\ last'.res.kind = "ok"
              /\ store' = store
              /\ Elems(q) \subseteq {MatterFromRow(r) : r \in store.matter}
              /\ \A i, j \in 1..Len(q) :
                    i < j => q[i] # q[j] /\ q[i].start_time <= q[j].start_time
              /\ \A r \in store.matter :
                    r[5] <= r[6] =>
                       (MatterFromRow(r) \in Elems(q)
                          <=> (r[5] <= end /\ r[6] >= start)) ]_vars

\* get_by_time_range(3, 4) returned the stored event [0, 3] and not the
\* stored event [1, 2].
C12_Witness ==
    /\ last.call.op = "get_by_time_range"
    /\ last.call.arg = <<3, 4>>
    /\ last.res.kind = "ok"
    /\ Len(last.res.val) = 1
    /\ last.res.val[1].start_time = 0 /\ last.res.val[1].end_time = 3
    /\ \E r \in store.matter : r[5] = 1 /\ r[6] = 2

\* C14: mark_as_read(id) of a stored id returns Ok(()) and leaves the row of
\* id with status Read and a read_at that is not NULL; get_unread() returns
\* the rows of status Unread, each once, so not the row of a mark_as_read(id)
\* that ran right before it; mark_all_as_read() leaves no row of status
\* Unread and a get_unread() right after it returns the empty list.
C14_ReadUnread ==
    [][ /\ ( /\ last'.call.op = "mark_as_read"
              /\ last'.call.arg \in PkSet(store.notification_records) )
            => /\ last'.res = Ok(Unit)
               /\ \E r \in store'.notification_records : r[1] = last'.call.arg
               /\ \A r \in store'.notification_records :
                     r[1] = last'.call.arg => r[5] = Read /\ r[8] # None
        /\ last'.call.op = "get_unread"
            => /\ last'.res.kind = "ok"
               /\ ListsOnce(last'.res.val,
                            {NotificationFromRow(r) :
                               r \in SqlWhereEq(store.notification_records, 5, Unread)})
               /\ last.call.op = "mark_as_read"
                    => \A i \in 1..Len(last'.res.val) :
                          last'.res.val[i].id # last.call.arg
               /\ last.call.op = "mark_all_as_read" => last'.res.val = <<>>
        /\ last'.call.op = "mark_all_as_read"
            => /\ last'.res = Ok(Unit)
               /\ \A r \in store'.notification_records : r[5] # Unread ]_vars

\* mark_as_read(id) has just turned a row to Read at the time of the call,
\* next to a row that is still Unread.
C14_Witness ==
    /\ last.call.op = "mark_as_read"
    /\ \E r \in store.notification_records :
         r[1] = last.call.arg /\ r[5] = Read /\ r[8] = Some(last.at)
    /\ \E r \in store.notification_records :
         r[1] # last.call.arg /\ r[5] = Unread /\ r[8] = None

\* C15: the read_at of a stored notification, once not NULL, keeps its value
\* under every operation while the row exists; it turns from NULL to a value
\* only in a step that turns the status from Unread to Read, and every such
\* step sets it.
C15_ReadAtOnce ==
    [][ \A r \in store.notification_records :
          \A q \in store'.notification_records :
             r[1] = q[1] =>
                /\ r[8] # None => q[8] = r[8]
                /\ (r[8] = None /\ q[8] # None) => (r[5] = Unread /\ q[5] = Read)
                /\ (r[5] = Unread /\ q[5] = Read) => q[8] # None ]_vars

\* C18: update_status(id, s) returns Ok(()); on a stored id it leaves the row
\* of id with status s and updated_at the clock reading of the call (not
\* before the time the call began) and every other cell as it was; every
\* other row and table stays; on an id that is not stored nothing changes.
C18_UpdateStatusPartial ==
    [][ last'.call.op = "update_status" =>
          LET id == last'.call.arg[1]
              s == last'.call.arg[2]
              rows == SqlWhereEq(store.repeat_task, 1, id)
          IN  /\ last'.res = Ok(Unit)
              /\ last'.at >= now /\ last'.at = now'
              /\ \A o \in Repos \ {"repeat_task"} : store'[o] = store[o]
              /\ rows = {} => store' = store
              /\ \A r \in rows :
                    store'.repeat_task
                      = (store.repeat_task \ {r})
                          \cup {[r EXCEPT ![5] = s, ![7] = last'.at]} ]_vars

\* update_status(id, s) has just set the status and the updated_at of the
\* row of id, later than its created_at, next to a row of another status.
C18_Witness ==
    /\ last.call.op = "update_status"
    /\ \E r \in store.repeat_task :
         /\ r[1] = last.call.arg[1]
         /\ r[5] = last.call.arg[2]
         /\ r[7] = last.at /\ r[7] > r[6]
    /\ \E r \in store.repeat_task :
         r[1] # last.call.arg[1] /\ r[5] # last.call.arg[2]

\* C19: get_active_tasks() returns Ok with the stored rows of status 1, each
\* once and no other row, by created_at descending, and changes no table.
C19_ActiveTasks ==
    [][ last'.call.op = "get_active_tasks" =>
          LET q == last'.res.val
          IN  /\ last'.res.kind = "ok"
              /\ store' = store
              /\ ListsOnce(q, {RepeatTaskFromRow(r) :
                                 r \in {x \in store.repeat_task : x[5] = 1}})
              /\ \A i \in 1..Len(q) : q[i].status = 1
              /\ \A i, j \in 1..Len(q) :
                    i < j => q[i].created_at >= q[j].created_at ]_vars

\* get_active_tasks() returned the one active row of a table that also
\* holds a row that is not active.
C19_Witness ==
    /\ last.call.op = "get_active_tasks"
    /\ last.res.kind = "ok"
    /\ Len(last.res.val) = 1
    /\ \E r \in store.repeat_task : r[5] \in {-1, 0, 2}

\* The events that carry tag n, and the notifications that name task id.
TaggedWith(st, n) == {r \in st.matter : r[4] = Some(n)}

RelatedTo(st, id) == {r \in st.notification_records : r[6] = Some(id)}

\* C20: a call changes rows of the table of its own repository only; so
\* Tag.delete(name) leaves every event as it was, the events that carry the
\* tag included, and RepeatTask.delete(id) leaves every notification as it
\* was, those whose related_task_id is id included.
C20_NoCascade ==
    [][ /\ \A o \in Repos \ {last'.call.repo} : store'[o] = store[o]
        /\ (last'.call.repo = "tags" /\ last'.call.op = "delete")
             => TaggedWith(store', last'.call.arg) = TaggedWith(store, last'.call.arg)
        /\ (last'.call.repo = "repeat_task" /\ last'.call.op = "delete")
             => RelatedTo(store', last'.call.arg) = RelatedTo(store, last'.call.arg)
      ]_vars

\* Tag.delete("y") has removed the tag an event still carries.
C20_Witness ==
    /\ last.call.repo = "tags"
    /\ last.call.op = "delete"
    /\ last.res = Ok(Unit)
    /\ TagsNamed(store, last.call.arg) = {}
    /\ TaggedWith(store, last.call.arg) # {}

(***************************************************************************)
(* Properties of concurrent callers (SpecConc, SpecConcTag).               *)
(***************************************************************************)
\* Thread t runs the statement of Tag::create in this step.
TagCreateRuns(t) ==
    /\ pc[t] = "holding"
    /\ pc'[t] = "executed"
    /\ cur[t].repo = "tags"
    /\ cur[t].op = "create"

\* C11: Tag.create(x), whoever else is calling, returns Ok(()) and leaves
\* exactly one row named x; when a row named x was stored already the call
\* changes nothing at all (created_at and last_used_at stay); no other row
\* and no other table changes; and at no time are there two rows of one name.
C11_IdempotentTagCreate ==
    /\ [](\A n \in Names : Cardinality(TagsNamed(store, n)) <= 1)
    /\ [][ \A t \in Threads :
             TagCreateRuns(t) =>
                /\ res'[t] = Ok(Unit)
                /\ Cardinality(TagsNamed(store', cur[t].arg)) = 1
                /\ TagsNamed(store, cur[t].arg) # {} => store' = store
                /\ store'.tags \ TagsNamed(store', cur[t].arg)
                     = store.tags \ TagsNamed(store, cur[t].arg)
                /\ \A r \in Repos \ {"tags"} : store'[r] = store[r] ]_vars

\* A create("x") ran and returned Ok(()) at a later clock reading than the
\* one the stored row named x carries, next to the row named y.
C11_Witness ==
    \E t \in Threads :
        /\ pc[t] = "executed"
        /\ cur[t] = Call("tags", "create", "x")
        /\ res[t] = Ok(Unit)
        /\ \E r \in store.tags : r[1] = "x" /\ r[2] < now /\ r[3] < now
        /\ Cardinality(store.tags) = 2

\* C2: while a call that takes the write lock is between its acquisition and
\* its return, no other call holds the lock in any mode; the lock itself
\* never has a writer next to a reader.  (Two read-only calls holding the
\* lock together is the reachable state C2_TwoReaders.)
C2_Exclusion ==
    /\ \A t \in Threads :
         (Holding(t) /\ LockMode(cur[t]) = "write") =>
            /\ writer = t
            /\ readers = {}
            /\ \A u \in Threads \ {t} : ~Holding(u)
    /\ writer # NoThread => readers = {}

C2_TwoReaders ==
    \E t, u \in Threads :
        /\ t # u
        /\ Holding(t) /\ Holding(u)
        /\ LockMode(cur[t]) = "read" /\ LockMode(cur[u]) = "read"
        /\ {t, u} \subseteq readers

\* C3: on a populated store, a get_all() that ran returned Ok with exactly
\* the rows of the table as it is while the reader holds the lock, each once,
\* and no get_all() dies inside its statement.
C3_ConsistentSnapshots ==
    \A t \in Threads :
        (cur[t].op = "get_all" /\ store.matter # {}) =>
            /\ pc[t] = "executed" =>
                 /\ res[t].kind = "ok"
                 /\ Len(res[t].val) = Cardinality(store.matter)
                 /\ {res[t].val[i] : i \in 1..Len(res[t].val)}
                      = {MatterFromRow(r) : r \in store.matter}
            /\ pc[t] = "panicked" => res[t] # Panic("race")

\* C4: a guard is out only for a call between its acquisition and its
\* return, one guard per such call; when no call is in progress (every
\* thread idle or gone) nobody holds the lock, whatever the calls returned.
C4_LockScope ==
    /\ \A t \in Threads :
         /\ (t \in readers \/ writer = t) => Holding(t)
         /\ Holding(t) => (t \in readers) # (writer = t)
         /\ Holding(t) => (writer = t) = (LockMode(cur[t]) = "write")
    /\ (\A t \in Threads : pc[t] \in {"idle", "panicked"}) => LockFree

\* A call has just returned an error, another thread died holding the write
\* guard, and the lock is free.
C4_Witness ==
    /\ last.res.kind = "err"
    /\ \E t \in Threads : pc[t] = "panicked" /\ res[t] = Panic("statement")
    /\ \A t \in Threads : pc[t] \in {"idle", "panicked"}
    /\ LockFree

\* C8: a call that finds the lock poisoned hands an error result back to its
\* caller, whose thread goes on: no thread is lost to the poisoned lock.
C8_PoisonedLockError ==
    \A t \in Threads :
        res[t].kind = "panic" => res[t].val # "PoisonError"

(***************************************************************************)
(* Termination (SpecLive).                                                 *)
(***************************************************************************)
SomePanic == \E u \in Threads : pc[u] = "panicked"

IsInfix(v, x) ==
    \E i \in 0..Len(x) : i + Len(v) <= Len(x) /\ SubSeq(x, i + 1, i + Len(v)) = v

\* C22: for a column name field, query_by_field(field, value, true) returns
\* exactly the stored events whose field equals value, and
\* query_by_field(field, value, false) exactly the stored events whose field
\* holds value as a literal substring, also when value holds % or _; each
\* once, ascending by start_time.
C22_QueryByField ==
    [][ (last'.call.op = "query_by_field" /\ MatterColumn(last'.call.arg[1]) # 0) =>
          LET col == MatterColumn(last'.call.arg[1])
              value == Chars(last'.call.arg[2])
              q == last'.res.val
              hits == {r \in store.matter :
                         /\ MatterText(r, col) # None
                         /\ IF last'.call.arg[3]
                            THEN MatterText(r, col)[1] = value
                            ELSE IsInfix(value, MatterText(r, col)[1])}
          IN  /\ last'.res.kind = "ok"
              /\ ListsOnce(q, {MatterFromRow(r) : r \in hits})
              /\ \A i, j \in 1..Len(q) : i < j => q[i].start_time <= q[j].start_time
      ]_vars

(***************************************************************************)
(* Schema initialisation (SpecSchema).                                     *)
(***************************************************************************)
\* C23: initialize_database succeeds on a file that has the schema and rows
\* and on an empty file; it changes no row of a table the file had, ends
\* with all six tables and idx_matter_time there, and issues the index
\* statement only when the matter table exists.
C23_IdempotentInitialize ==
    /\ [](last.res.kind # "err")
    /\ [](Len(log) = Len(InitStatements) => last.res = Ok(Unit) /\ schema = Schema)
    /\ [][ /\ schema \subseteq schema'
           /\ \A t \in Tables \cap schema : store'[t] = store[t]
           /\ \A t \in Tables \ schema : store'[t] = {}
           /\ (log' # log /\ log'[Len(log')] = "idx_matter_time")
                 => "matter" \in schema ]_vars

\* initialize_database has run to its end on a file with one row in every
\* table and returned Ok; the rows are there as they were.
C23_Witness ==
    /\ Len(log) = Len(InitStatements)
    /\ last.call = InitializeCall
    /\ last.res = Ok(Unit)
    /\ store = SeedStore
    /\ schema = Schema

(***************************************************************************)
(* Notification status and read_at (SpecNotification).                     *)
(***************************************************************************)
\* C24: in every state the NotificationRecord functions reach, a stored
\* notification has status Read if and only if its read_at is not NULL.
C24_StatusReadAtAgree ==
    \A r \in store.notification_records : (r[5] = Read) <=> (r[8] # None)

(***************************************************************************)
(* Concurrent writers of one primary key (SpecConcWrite).                  *)
(***************************************************************************)
\* Thread t runs the statement of its call in this step.
Runs(t, op) ==
    /\ pc[t] = "holding"
    /\ pc'[t] = "executed"
    /\ cur[t].op = op

\* C25: however concurrent create, set, Tag.create, update and delete calls
\* interleave, every table holds at most one row per primary key, and a
\* create(v) succeeds exactly when no row of v.id is stored: of several
\* concurrent create(v) calls of one id (no delete between them) the one
\* that gets the lock first returns Ok and stores its row, every other one
\* returns the constraint violation and changes nothing.
C25_PrimaryKeyUnique ==
    /\ [](\A r \in Repos : Cardinality(PkSet(store[r])) = Cardinality(store[r]))
    /\ [][ \A t \in Threads :
             (Runs(t, "create") /\ cur[t].repo \in CrudRepos) =>
                IF cur[t].arg.id \in PkSet(TableOf(store, cur[t]))
                THEN res'[t] = Err(ConstraintViolation) /\ store' = store
                ELSE /\ res'[t] = Ok(Unit)
                     /\ TableOf(store', cur[t])
                           = TableOf(store, cur[t]) \cup {RowOf(cur[t])} ]_vars

\* A create of id 1 has returned Ok and another thread's create of id 1 with
\* other fields got the constraint violation; the row of the first is the
\* one stored.
C25_Witness ==
    /\ repo \in CrudRepos
    /\ last.call.op = "create"
    /\ last.res = Ok(Unit)
    /\ \E t \in Threads :
          /\ pc[t] = "executed"
          /\ cur[t].op = "create"
          /\ cur[t].arg.id = last.call.arg.id
          /\ cur[t].arg # last.call.arg
          /\ res[t] = Err(ConstraintViolation)
          /\ RowOf(last.call) \in TableOf(store, last.call)

\* C26: with a clock that does not go back, every kvstore row has
\* created_at <= updated_at and every tags row created_at <= last_used_at,
\* and a set on a stored key, which reads the clock under the write lock,
\* writes an updated_at that is not before the one it replaces.
C26_TimestampsOrdered ==
    /\ [](\A r \in store.kvstore : r[3] <= r[4])
    /\ [](\A r \in store.tags : r[2] <= r[3])
    /\ [][ \A t \in Threads :
             (Runs(t, "set") /\ cur[t].repo = "kvstore") =>
                \A r \in store.kvstore, r2 \in store'.kvstore :
                    (r[1] = cur[t].arg[1] /\ r2[1] = r[1]) =>
                        r[4] <= r2[4] /\ r2[3] = r[3] ]_vars

\* Two sets of one key ran at different instants: the row keeps the
\* created_at of the first and carries the later updated_at of the second.
C26_Witness ==
    /\ last.call.repo = "kvstore"
    /\ last.call.op = "set"
    /\ \E r \in store.kvstore : r[1] = "k1" /\ r[3] < r[4] /\ r[4] = now
====
